---- MODULE Spec2Model ----
(***************************************************************************)
(* A model of nba_app.py (CourtVision AI), a Streamlit script.             *)
(*                                                                         *)
(* Two specifications share the definitions of the data pipeline:          *)
(*   SpecTrends  the cached data functions (get_todays_games_v4,           *)
(*               get_defensive_rankings_v4, get_league_trends_v4) applied  *)
(*               to upstream responses drawn from bounded sets;            *)
(*   SpecApp     one browser session of the script: the password gate,     *)
(*               the st.cache_data caches, the sidebar and the chat tab.   *)
(*                                                                         *)
(* Points per game and defensive ratings are one-decimal numbers; they are *)
(* kept in tenths (11.5 is 115), so the thresholds 4.0, 2.0, -3.0, -1.5,   *)
(* 116.0 and 112.0 are 40, 20, -30, -15, 1160 and 1120.                    *)
(* A Python exception is a result with raised = TRUE / ok = FALSE.         *)
(* get_team_map_v4 and get_live_injuries_v4 feed only the briefing         *)
(* expander and the text of the prompt, and are left out.                  *)
(***************************************************************************)
EXTENDS Integers, Sequences, FiniteSets, TLC

VARIABLES
    api,               \* the upstream responses the run received (Raise where no call was made)
    fetched,           \* SpecApp: the upstream calls the last script run made
    pc,                \* SpecTrends: "ready" before the calls, "done" after
    trends,            \* the table get_league_trends_v4 returned
    games,             \* the map get_todays_games_v4 returned
    defense,           \* the map get_defensive_rankings_v4 returned
    password_correct,  \* st.session_state["password_correct"]: "unset", "true", "false"
    password,          \* st.session_state["password"], the widget's value, or Deleted
    submitted,         \* the access code the last on_change callback compared
    messages,          \* st.session_state.messages
    cache,             \* the st.cache_data entries of the three data functions, as stored
    screen,            \* what the last script run rendered: "gate", "gate_error", "app", "exception"
    indicator,         \* the sidebar defense indicator of the last run
    prompt,            \* the chat input of the last run, or NoPrompt
    llm                \* the language-model API's responses to the last run

vars == <<api, fetched, pc, trends, games, defense, password_correct, password,
          submitted, messages, cache, screen, indicator, prompt, llm>>

appVars == <<fetched, password_correct, password, submitted, messages, cache, screen,
             indicator, prompt, llm>>

----------------------------------------------------------------------------
(* Bounds of the model *)

NumPlayers == 2
MaxChats == 2

(* Program constants *)

MinGP == 3
SuperHotMin == 40
HeatingUpMin == 20
IceColdMax == -30
CoolingDownMax == -15
SoftAbove == 1160
ToughBelow == 1120
FallbackRating == 1140
FullLeague == 30

----------------------------------------------------------------------------
(* Python values *)

\* An id as the upstream tables hold it: an int, a float n.f, the text of a
\* float, any other text, or NaN.
IntId(n) == [ty |-> "int", n |-> n, f |-> 0, s |-> ""]
FloatId(n, f) == [ty |-> "float", n |-> n, f |-> f, s |-> ""]
NumTextId(n, f) == [ty |-> "numtext", n |-> n, f |-> f, s |-> ""]
TextId(s) == [ty |-> "text", n |-> 0, f |-> 0, s |-> s]
NaNId == [ty |-> "nan", n |-> 0, f |-> 0, s |-> "nan"]

\* str(int(float(obj))), and str(obj) when that raises. int() truncates the
\* fraction of a non-negative float; float() of NaN parses and int() of it raises.
clean_id(obj) ==
    CASE obj.ty = "int" -> ToString(obj.n)
      [] obj.ty = "float" -> ToString(obj.n)
      [] obj.ty = "numtext" -> ToString(obj.n)
      [] obj.ty = "nan" -> "nan"
      [] OTHER -> obj.s

\* dict assignment m[k] = v
Put(m, k, v) == [x \in (DOMAIN m) \cup {k} |-> IF x = k THEN v ELSE m[x]]

EmptyDict == <<>>

Raise == [ok |-> FALSE, rows |-> <<>>]
Frame(rows) == [ok |-> TRUE, rows |-> rows]

expected_cols == <<"Player", "Matchup", "Season PPG", "Last 5 PPG", "Trend (Delta)", "Status">>

EmptyDataFrame == [raised |-> FALSE, columns |-> expected_cols, rows |-> <<>>]
Raised == [raised |-> TRUE, columns |-> <<>>, rows |-> <<>>]
NoTable == [raised |-> FALSE, columns |-> <<>>, rows |-> <<>>]

\* The permutations of 1..n
Perms(n) == {p \in [1..n -> 1..n] : \A i, j \in 1..n : p[i] = p[j] => i = j}

----------------------------------------------------------------------------
(* get_defensive_rankings_v4 *)

\* static_teams.get_teams(): the library's fixed list of the league's teams
StaticTeams == [i \in 1..FullLeague |-> [id |-> IntId(i), abbreviation |-> "T" \o ToString(i)]]

\* The loop over teams_data.iterrows(): defense_map[clean_team_id] = {...}
RECURSIVE defense_from_rows(_, _)
defense_from_rows(rows, m) ==
    IF rows = <<>> THEN m
    ELSE defense_from_rows(Tail(rows),
             Put(m, clean_id(Head(rows).TEAM_ID),
                 [Team |-> Head(rows).TEAM_NAME, Rating |-> Head(rows).DEF_RATING]))

\* The loop of the except branch over static_teams.get_teams()
RECURSIVE defense_fallback(_, _)
defense_fallback(teams, m) ==
    IF teams = <<>> THEN m
    ELSE defense_fallback(Tail(teams),
             Put(m, clean_id(Head(teams).id),
                 [Team |-> Head(teams).abbreviation, Rating |-> FallbackRating]))

\* sort_values(by='DEF_RATING', ascending=False), as an insertion from the
\* right. The order the sort gives rows of equal rating does not reach the
\* result: the loop below writes one key per team id.
RECURSIVE insert_by_rating(_, _)
insert_by_rating(row, sorted) ==
    IF sorted = <<>> THEN <<row>>
    ELSE IF row.DEF_RATING >= Head(sorted).DEF_RATING THEN <<row>> \o sorted
    ELSE <<Head(sorted)>> \o insert_by_rating(row, Tail(sorted))

RECURSIVE sort_by_rating(_)
sort_by_rating(rows) ==
    IF rows = <<>> THEN <<>>
    ELSE insert_by_rating(Head(rows), sort_by_rating(Tail(rows)))

\* The map the except branch builds; it depends on nothing but the static list
FallbackDefense == defense_fallback(StaticTeams, EmptyDict)

get_defensive_rankings_v4(teamstats) ==
    IF teamstats.ok
    THEN defense_from_rows(sort_by_rating(teamstats.rows), EmptyDict)
    ELSE FallbackDefense

----------------------------------------------------------------------------
(* get_todays_games_v4 *)

RECURSIVE games_from_rows(_, _)
games_from_rows(rows, g) ==
    IF rows = <<>> THEN g
    ELSE LET h == clean_id(Head(rows).HOME_TEAM_ID)
             v == clean_id(Head(rows).VISITOR_TEAM_ID)
         IN games_from_rows(Tail(rows), Put(Put(g, h, v), v, h))

\* The loop over the two dates; an exception of either scoreboard call leaves
\* the loop, and the map built so far is dropped.
games_try(board1, board2) ==
    IF ~board1.ok \/ ~board2.ok
    THEN [raised |-> TRUE, val |-> EmptyDict]
    ELSE [raised |-> FALSE,
          val |-> games_from_rows(board2.rows, games_from_rows(board1.rows, EmptyDict))]

get_todays_games_v4(board1, board2) ==
    LET r == games_try(board1, board2)
    IN IF r.raised THEN EmptyDict ELSE r.val

----------------------------------------------------------------------------
(* get_league_trends_v4 *)

NoGame == [text |-> "No Game", opp |-> "", band |-> ""]
VsUnknown == [text |-> "vs ???", opp |-> "", band |-> ""]
Vs(opp_name, band) == [text |-> "vs", opp |-> opp_name, band |-> band]

analyze_matchup_defense(team_id, games_, defense_) ==
    LET my_team == clean_id(team_id)
    IN IF my_team \notin DOMAIN defense_ THEN NoGame
       ELSE IF my_team \notin DOMAIN games_ THEN VsUnknown
       ELSE Vs(defense_[my_team].Team, "Avg")

analyze_matchup_ge(team_id, games_, defense_) ==
    LET my_team == clean_id(team_id)
    IN IF my_team \notin DOMAIN games_ THEN NoGame
       ELSE LET opp_id == games_[my_team]
            IN IF opp_id \in DOMAIN defense_
               THEN LET opp_name == defense_[opp_id].Team
                        opp_rating == defense_[opp_id].Rating
                    IN IF opp_rating >= SoftAbove THEN Vs(opp_name, "Soft")
                       ELSE IF opp_rating < ToughBelow THEN Vs(opp_name, "Tough")
                       ELSE Vs(opp_name, "Avg")
               ELSE VsUnknown

analyze_matchup(team_id, games_, defense_) ==
    LET my_team == clean_id(team_id)
    IN IF my_team \notin DOMAIN games_ THEN NoGame
       ELSE LET opp_id == games_[my_team]
            IN IF opp_id \in DOMAIN defense_
               THEN LET opp_name == defense_[opp_id].Team
                        opp_rating == defense_[opp_id].Rating
                    IN IF opp_rating > SoftAbove THEN Vs(opp_name, "Soft")
                       ELSE IF opp_rating < ToughBelow THEN Vs(opp_name, "Tough")
                       ELSE Vs(opp_name, "Avg")
               ELSE VsUnknown

get_status_strict(d) ==
    IF d > SuperHotMin THEN "Super Hot"
    ELSE IF d > HeatingUpMin THEN "Heating Up"
    ELSE IF d < IceColdMax THEN "Ice Cold"
    ELSE IF d < CoolingDownMax THEN "Cooling Down"
    ELSE "Zap"

get_status(d) ==
    IF d >= SuperHotMin THEN "Super Hot"
    ELSE IF d >= HeatingUpMin THEN "Heating Up"
    ELSE IF d <= IceColdMax THEN "Ice Cold"
    ELSE IF d <= CoolingDownMax THEN "Cooling Down"
    ELSE "Zap"

\* l5[l5['GP'] >= 3]
EnoughGames(r) == r.GP >= MinGP
filter_gp(l5rows) == SelectSeq(l5rows, EnoughGames)

\* The rows of l5 with the key of season row s, in l5's order
RECURSIVE matches(_, _)
matches(s, l5rows) ==
    IF l5rows = <<>> THEN <<>>
    ELSE (IF Head(l5rows).PLAYER_ID = s.PLAYER_ID
          THEN <<[PLAYER_ID |-> s.PLAYER_ID, PLAYER_NAME |-> s.PLAYER_NAME,
                  TEAM_ID |-> s.TEAM_ID, PTS_Season |-> s.PTS,
                  PTS_L5 |-> Head(l5rows).PTS]>>
          ELSE <<>>) \o matches(s, Tail(l5rows))

\* pd.merge(season, l5, on='PLAYER_ID'): the inner join, in the order of the
\* left keys
RECURSIVE merge(_, _)
merge(season, l5rows) ==
    IF season = <<>> THEN <<>>
    ELSE matches(Head(season), l5rows) \o merge(Tail(season), l5rows)

TrendDelta_swapped(m) == m.PTS_Season - m.PTS_L5

\* merged['PTS_L5'] - merged['PTS_Season']
TrendDelta(m) == m.PTS_L5 - m.PTS_Season

sort_values_ascending(rows) ==
    {[i \in 1..Len(rows) |-> rows[p[i]]] : p \in
        {q \in Perms(Len(rows)) :
            \A i \in 1..Len(rows) : \A j \in 1..Len(rows) :
                i < j => rows[q[i]].Delta <= rows[q[j]].Delta}}

\* sort_values(by='Trend (Delta)', ascending=False) with the default, unstable
\* sort: every ordering of the rows with non-increasing deltas is an outcome.
sort_values(rows) ==
    {[i \in 1..Len(rows) |-> rows[p[i]]] : p \in
        {q \in Perms(Len(rows)) :
            \A i \in 1..Len(rows) : \A j \in 1..Len(rows) :
                i < j => rows[q[i]].Delta >= rows[q[j]].Delta}}

\* The body of the try block: the outcomes of its statements, an exception of a
\* player-stats call included. games_ and defense_ are what the two (cached)
\* helper calls of lines 174-175 return; neither raises.
trends_try(season, l5, games_, defense_) ==
    IF ~season.ok \/ ~l5.ok THEN {Raised}
    ELSE LET merged == merge(season.rows, filter_gp(l5.rows))
             final_df == [i \in 1..Len(merged) |->
                            [Player |-> merged[i].PLAYER_NAME,
                             Matchup |-> analyze_matchup(merged[i].TEAM_ID, games_, defense_),
                             Season |-> merged[i].PTS_Season,
                             Last5 |-> merged[i].PTS_L5,
                             Delta |-> TrendDelta(merged[i]),
                             Status |-> get_status(TrendDelta(merged[i]))]]
         IN {[raised |-> FALSE, columns |-> expected_cols, rows |-> s] :
                s \in sort_values(final_df)}

get_league_trends_v4_unguarded(season, l5, games_, defense_) ==
    trends_try(season, l5, games_, defense_)

\* try: ... except: return pd.DataFrame(columns=expected_cols)
get_league_trends_v4(season, l5, games_, defense_) ==
    {IF o.raised THEN EmptyDataFrame ELSE o : o \in trends_try(season, l5, games_, defense_)}

----------------------------------------------------------------------------
(* The upstream responses SpecTrends draws from *)

Players == 1..NumPlayers
PLAYER_NAME(p) == "Player" \o ToString(p)

\* Ascending and descending listings of a set of player ids
RECURSIVE Ascending(_)
Ascending(S) ==
    IF S = {} THEN <<>>
    ELSE LET m == CHOOSE x \in S : \A y \in S : x <= y
         IN <<m>> \o Ascending(S \ {m})

RECURSIVE Descending(_)
Descending(S) ==
    IF S = {} THEN <<>>
    ELSE LET m == CHOOSE x \in S : \A y \in S : x >= y
         IN <<m>> \o Descending(S \ {m})

SeasonPts == {100, 110}
L5Cells == {[GP |-> 3, PTS |-> 70], [GP |-> 3, PTS |-> 85], [GP |-> 3, PTS |-> 100],
            [GP |-> 3, PTS |-> 120], [GP |-> 3, PTS |-> 140], [GP |-> 2, PTS |-> 140]}

SeasonFrame(S, team, pts) ==
    LET ids == Ascending(S)
    IN Frame([i \in 1..Len(ids) |->
                [PLAYER_ID |-> ids[i], PLAYER_NAME |-> PLAYER_NAME(ids[i]),
                 TEAM_ID |-> team[ids[i]], PTS |-> pts[ids[i]]]])

L5Frame(S, cell) ==
    LET ids == Descending(S)
    IN Frame([i \in 1..Len(ids) |->
                [PLAYER_ID |-> ids[i], GP |-> cell[ids[i]].GP, PTS |-> cell[ids[i]].PTS]])

\* The players' teams: team 1 as an int, team 2 as a float, team 3 as text
TeamOf(p) ==
    IF p % 3 = 1 THEN IntId(1) ELSE IF p % 3 = 2 THEN FloatId(2, 0) ELSE NumTextId(3, 0)

SeasonResponses ==
    {Raise} \cup UNION {{SeasonFrame(S, [p \in S |-> TeamOf(p)], pts) :
                            pts \in [S -> SeasonPts]} :
                        S \in SUBSET Players}

L5Responses ==
    {Raise} \cup UNION {{L5Frame(S, cell) : cell \in [S -> L5Cells]} : S \in SUBSET Players}

BoardTeams == {1, 2, 3}
Game(h, v) == [HOME_TEAM_ID |-> IntId(h), VISITOR_TEAM_ID |-> IntId(v)]
BoardResponses ==
    {Raise, Frame(<<>>)} \cup
    {Frame(<<Game(g[1], g[2])>>) : g \in {x \in BoardTeams \X BoardTeams : x[1] # x[2]}}

Ratings == {1119, 1120, 1160, 1161}
TeamStatsFrame(S, rating) ==
    LET ids == Ascending(S)
    IN Frame([i \in 1..Len(ids) |->
                [TEAM_ID |-> IntId(ids[i]), TEAM_NAME |-> "Team" \o ToString(ids[i]),
                 DEF_RATING |-> rating[ids[i]]]])
TeamStatsResponses ==
    {Raise} \cup UNION {{TeamStatsFrame(S, rating) : rating \in [S -> Ratings]} :
                        S \in SUBSET BoardTeams}

Api(season, l5, board1, board2, teamstats) ==
    [season |-> season, l5 |-> l5, board1 |-> board1, board2 |-> board2,
     teamstats |-> teamstats]

\* Every player listed in both tables,
BaseSeason == SeasonFrame(Players, [p \in Players |-> TeamOf(p)], [p \in Players |-> 100])
\* with a different last-5 average each
BasePts(p) == IF p = 1 THEN 140 ELSE IF p = 2 THEN 85 ELSE IF p = 3 THEN 120 ELSE 100
BaseL5 == L5Frame(Players, [p \in Players |-> [GP |-> 3, PTS |-> BasePts(p)]])

BaseSchedules ==
    {<<Frame(<<Game(1, 2)>>), Frame(<<>>),
       TeamStatsFrame({1, 2}, [t \in {1, 2} |-> IF t = 1 THEN 1161 ELSE 1119])>>,
     <<Frame(<<Game(3, 1)>>), Raise, Raise>>}

\* All player tables against a few schedules, and all schedules against a few
\* player tables.
ApiResponses ==
    {Api(s, l, b[1], b[2], b[3]) :
        s \in SeasonResponses, l \in L5Responses, b \in BaseSchedules}
    \cup
    {Api(BaseSeason, BaseL5, b1, b2, t) :
        b1 \in BoardResponses, b2 \in BoardResponses, t \in TeamStatsResponses}

NoApi == Api(Raise, Raise, Raise, Raise, Raise)

----------------------------------------------------------------------------
(* SpecTrends: the data functions applied to upstream responses *)

Miss == [hit |-> FALSE, val |-> <<>>]
Hit(v) == [hit |-> TRUE, val |-> v]
EmptyCache == [trends |-> Miss, games |-> Miss, defense |-> Miss]

NoPrompt == "<no prompt>"
Deleted == "<deleted>"
NoLlm == [models |-> Raise, gen |-> Raise]

\* The session before anything was entered: the first script run stopped at
\* the gate and rendered the access-code input.
AppIdle ==
    /\ fetched = {}
    /\ password_correct = "unset"
    /\ password = ""
    /\ submitted = ""
    /\ messages = <<>>
    /\ cache = EmptyCache
    /\ screen = "gate"
    /\ indicator = "none"
    /\ prompt = NoPrompt
    /\ llm = NoLlm

InitTrends ==
    /\ api \in ApiResponses
    /\ pc = "ready"
    /\ trends = NoTable
    /\ games = EmptyDict
    /\ defense = EmptyDict
    /\ AppIdle

\* One uncached evaluation of each data function on the same responses
CallDataFunctions ==
    /\ pc = "ready"
    /\ pc' = "done"
    /\ games' = get_todays_games_v4(api.board1, api.board2)
    /\ defense' = get_defensive_rankings_v4(api.teamstats)
    /\ trends' \in get_league_trends_v4(api.season, api.l5,
                                        get_todays_games_v4(api.board1, api.board2),
                                        get_defensive_rankings_v4(api.teamstats))
    /\ UNCHANGED api
    /\ UNCHANGED appVars

NextTrends == CallDataFunctions

SpecTrends == InitTrends /\ [][NextTrends]_vars

----------------------------------------------------------------------------
(* Properties of the data functions, checked under SpecTrends *)

Rows(t) == {t.rows[i] : i \in 1..Len(t.rows)}
SeasonRows == Rows(api.season)
L5Rows == Rows(api.l5)
PlayerStatsOk == api.season.ok /\ api.l5.ok
AnyFetchFailed ==
    ~api.season.ok \/ ~api.l5.ok \/ ~api.board1.ok \/ ~api.board2.ok \/ ~api.teamstats.ok

\* The players the join keeps: listed in the season table and in a last-5 row
\* with at least 3 games
JoinedPlayers ==
    {p \in Players : /\ \E s \in SeasonRows : s.PLAYER_ID = p
                     /\ \E l \in L5Rows : l.PLAYER_ID = p /\ l.GP >= 3}

\* The team ids (as the season table holds them) of the player a row names
TeamsOfRow(r) == {s.TEAM_ID : s \in {x \in SeasonRows : x.PLAYER_NAME = r.Player}}

HasExactColumns ==
    trends.columns =
        <<"Player", "Matchup", "Season PPG", "Last 5 PPG", "Trend (Delta)", "Status">>

\* C1 as stated: after a failure of any of the four upstream fetches (season
\* stats, last-5 stats, scoreboard, defensive ratings) get_league_trends_v4
\* returns an empty table with exactly the expected columns and raises nothing.
C1_EmptyOnAnyFetchFailure ==
    (pc = "done" /\ AnyFetchFailed)
        => (~trends.raised /\ HasExactColumns /\ trends.rows = <<>>)

\* C1 as amended: get_league_trends_v4 never raises and always returns exactly
\* the expected columns; a failure of the season or last-5 fetch gives zero
\* rows; a failure of the scoreboard or of the defensive ratings alone is
\* absorbed by the helper (empty opponent map, fallback ratings) and the table
\* keeps one row per joined player, all "No Game" when the scoreboard failed
\* and none "Soft" or "Tough" when the ratings failed.
C1_FailSoft ==
    pc = "done" =>
        /\ ~trends.raised
        /\ HasExactColumns
        /\ ~PlayerStatsOk => trends.rows = <<>>
        /\ PlayerStatsOk => Len(trends.rows) = Cardinality(JoinedPlayers)
        /\ (PlayerStatsOk /\ (~api.board1.ok \/ ~api.board2.ok)) =>
               \A r \in Rows(trends) : r.Matchup.text = "No Game"
        /\ (PlayerStatsOk /\ ~api.teamstats.ok) =>
               \A r \in Rows(trends) : r.Matchup.band \notin {"Soft", "Tough"}

\* C1 witness: the last-5 fetch failed after the season fetch succeeded with
\* rows, and the function returned the empty table.
C1_Witness ==
    /\ pc = "done"
    /\ api.season.ok /\ api.season.rows # <<>> /\ ~api.l5.ok
    /\ trends.rows = <<>> /\ HasExactColumns

\* C2: in every row the Status is the label of the delta's bucket, with
\* inclusive boundaries: >= 4.0 Super Hot, [2.0, 4.0) Heating Up, <= -3.0 Ice
\* Cold, (-3.0, -1.5] Cooling Down, and the neutral label otherwise.
C2_StatusBuckets ==
    pc = "done" =>
        \A r \in Rows(trends) :
            /\ r.Delta >= 40 => r.Status = "Super Hot"
            /\ (20 <= r.Delta /\ r.Delta < 40) => r.Status = "Heating Up"
            /\ r.Delta <= -30 => r.Status = "Ice Cold"
            /\ (-30 < r.Delta /\ r.Delta <= -15) => r.Status = "Cooling Down"
            /\ (-15 < r.Delta /\ r.Delta < 20) => r.Status = "Zap"

\* C2 witness: a table with a row at delta 4.0 labelled Super Hot and a row at
\* delta -1.5 labelled Cooling Down.
C2_Witness ==
    /\ pc = "done"
    /\ \E r \in Rows(trends) : r.Delta = 40 /\ r.Status = "Super Hot"
    /\ \E r \in Rows(trends) : r.Delta = -15 /\ r.Status = "Cooling Down"

\* C3: a row is labelled "No Game" exactly when its player's team id is not a
\* key of the opponent map, whatever the defensive-rating map holds.
C3_NoGameIffNotPlaying ==
    pc = "done" =>
        \A r \in Rows(trends) : \A t \in TeamsOfRow(r) :
            (clean_id(t) \notin DOMAIN games) <=> (r.Matchup.text = "No Game")

\* C3 witness: a player without a game whose own team has a defensive rating is
\* labelled "No Game", next to a player who has a game.
C3_Witness ==
    /\ pc = "done"
    /\ \E r \in Rows(trends) : \E t \in TeamsOfRow(r) :
           /\ clean_id(t) \notin DOMAIN games
           /\ clean_id(t) \in DOMAIN defense
           /\ r.Matchup.text = "No Game"
    /\ \E r \in Rows(trends) : r.Matchup.text # "No Game"

BandOf(rating) ==
    IF rating > 1160 THEN "Soft" ELSE IF rating < 1120 THEN "Tough" ELSE "Avg"

\* C4 as stated: every player whose team has a game is labelled with one of
\* the three bands of the opponent's defensive rating.
C4_AlwaysBanded ==
    pc = "done" =>
        \A r \in Rows(trends) : \A t \in TeamsOfRow(r) :
            clean_id(t) \in DOMAIN games =>
                /\ games[clean_id(t)] \in DOMAIN defense
                /\ r.Matchup.band = BandOf(defense[games[clean_id(t)]].Rating)

\* C4 as amended: a player whose team has a game and whose opponent is a key of
\* the defensive-rating map is labelled with the band of the opponent's rating
\* (> 116 Soft, < 112 Tough, [112, 116] Avg); when the opponent is not a key of
\* that map the label is "vs ???".
C4_BandedWhenRated ==
    pc = "done" =>
        \A r \in Rows(trends) : \A t \in TeamsOfRow(r) :
            clean_id(t) \in DOMAIN games =>
                IF games[clean_id(t)] \in DOMAIN defense
                THEN /\ r.Matchup.text = "vs"
                     /\ r.Matchup.band = BandOf(defense[games[clean_id(t)]].Rating)
                ELSE r.Matchup.text = "vs ???"

\* C4 witness: an opponent rated exactly 116.0 gives "Avg".
C4_Witness ==
    /\ pc = "done"
    /\ \E r \in Rows(trends) : \E t \in TeamsOfRow(r) :
           /\ clean_id(t) \in DOMAIN games
           /\ games[clean_id(t)] \in DOMAIN defense
           /\ defense[games[clean_id(t)]].Rating = 1160
           /\ r.Matchup.band = "Avg"

BoardTeamKeys ==
    UNION {{clean_id(g.HOME_TEAM_ID), clean_id(g.VISITOR_TEAM_ID)} :
              g \in Rows(api.board1) \cup Rows(api.board2)}

\* C5: the map of get_todays_games_v4 has exactly the teams of the two dates'
\* scoreboard rows as keys and is symmetric: games[games[t]] = t for every key.
C5_SymmetricAdjacency ==
    (pc = "done" /\ api.board1.ok /\ api.board2.ok) =>
        /\ DOMAIN games = BoardTeamKeys
        /\ \A t \in DOMAIN games : games[t] \in DOMAIN games /\ games[games[t]] = t

\* C6: the returned rows are in non-increasing order of delta and hold exactly
\* one row for each joined player.
C6_SortedPermutation ==
    (pc = "done" /\ PlayerStatsOk) =>
        /\ \A i \in 1..Len(trends.rows) : \A j \in 1..Len(trends.rows) :
               i < j => trends.rows[i].Delta >= trends.rows[j].Delta
        /\ Len(trends.rows) = Cardinality(JoinedPlayers)
        /\ \A p \in JoinedPlayers :
               Cardinality({i \in 1..Len(trends.rows) :
                               trends.rows[i].Player = PLAYER_NAME(p)}) = 1

\* C6 witness: two rows of different deltas where the later season row comes
\* first in the result.
C6_Witness ==
    /\ pc = "done"
    /\ Len(trends.rows) = 2
    /\ trends.rows[1].Player = PLAYER_NAME(2)
    /\ trends.rows[2].Player = PLAYER_NAME(1)
    /\ trends.rows[1].Delta > trends.rows[2].Delta

\* C7: in every row the delta is the last-5 PPG minus the season PPG, both of
\* the player the row names, and the last-5 value comes from a row with at
\* least 3 games played.
C7_DeltaOfSamePlayer ==
    pc = "done" =>
        \A r \in Rows(trends) :
            /\ r.Delta = r.Last5 - r.Season
            /\ \E p \in Players :
                   /\ r.Player = PLAYER_NAME(p)
                   /\ \E s \in SeasonRows : s.PLAYER_ID = p /\ s.PTS = r.Season
                   /\ \A l \in L5Rows : l.PLAYER_ID = p => (l.GP >= 3 /\ l.PTS = r.Last5)

\* C7 witness: a row of delta 3.0 (14.0 against 11.0) in a run where another
\* listed player's last-5 row has fewer than 3 games and is left out.
C7_Witness ==
    /\ pc = "done"
    /\ \E r \in Rows(trends) : r.Season = 110 /\ r.Last5 = 140 /\ r.Delta = 30
    /\ \E l \in L5Rows : l.GP < 3 /\ (\E s \in SeasonRows : s.PLAYER_ID = l.PLAYER_ID)
    /\ Len(trends.rows) = 1

----------------------------------------------------------------------------
(* The script: the password gate, the sidebar and the chat tab *)

\* st.secrets["APP_PASSWORD"]
APP_PASSWORD == "courtvision"
AccessCodes == {"", "guess", APP_PASSWORD}

\* password_entered: the new password_correct and password keys
password_entered(code) ==
    IF code = APP_PASSWORD
    THEN [password_correct |-> "true", password |-> Deleted]
    ELSE [password_correct |-> "false", password |-> code]

check_password_open(flag) ==
    IF flag = "unset" THEN [ok |-> FALSE, shows |-> "gate"]
    ELSE [ok |-> TRUE, shows |-> "app"]

\* check_password: its result and what it renders
check_password(flag) ==
    IF flag = "unset" THEN [ok |-> FALSE, shows |-> "gate"]
    ELSE IF flag # "true" THEN [ok |-> FALSE, shows |-> "gate_error"]
    ELSE [ok |-> TRUE, shows |-> "app"]

\* The cached call of get_todays_games_v4: the second date is queried only
\* when the first call returned.
games_call(c, a) ==
    IF c.games.hit THEN [val |-> c.games.val, fetched |-> {}]
    ELSE [val |-> get_todays_games_v4(a.board1, a.board2),
          fetched |-> IF a.board1.ok THEN {"board1", "board2"} ELSE {"board1"}]

\* The cached call of get_defensive_rankings_v4
defense_call(c, a) ==
    IF c.defense.hit THEN [val |-> c.defense.val, fetched |-> {}]
    ELSE [val |-> get_defensive_rankings_v4(a.teamstats), fetched |-> {"teamstats"}]

\* The cached call of get_league_trends_v4: the outcomes, each with the cache
\* after it and the upstream calls made. A call that raises stores nothing.
trends_call(c, a) ==
    IF c.trends.hit THEN {[val |-> c.trends.val, fetched |-> {}, cache |-> c]}
    ELSE LET helpers == a.season.ok /\ a.l5.ok
             g == games_call(c, a)
             d == defense_call(c, a)
             f == {"season"} \cup (IF a.season.ok THEN {"l5"} ELSE {})
                    \cup (IF helpers THEN g.fetched \cup d.fetched ELSE {})
         IN {[val |-> t, fetched |-> f,
              cache |-> [trends |-> IF t.raised THEN Miss ELSE Hit(t),
                         games |-> IF helpers THEN Hit(g.val) ELSE c.games,
                         defense |-> IF helpers THEN Hit(d.val) ELSE c.defense]] :
                t \in get_league_trends_v4(a.season, a.l5, g.val, d.val)}

\* The sidebar's defense indicator
defense_indicator(def_debug) ==
    IF Cardinality(DOMAIN def_debug) = 0 THEN "error"
    ELSE IF Cardinality(DOMAIN def_debug) = FullLeague THEN "success"
    ELSE "warning"

\* The sidebar: trends = get_league_trends_v4(), def_debug =
\* get_defensive_rankings_v4(), and the indicator
sidebar(c, a) ==
    {LET d == defense_call(t.cache, a)
     IN [raised |-> t.val.raised,
         trends |-> t.val,
         def_debug |-> d.val,
         fetched |-> t.fetched \cup d.fetched,
         cache |-> [t.cache EXCEPT !.defense = Hit(d.val)],
         games |-> IF t.cache.games.hit THEN t.cache.games.val ELSE EmptyDict,
         indicator |-> defense_indicator(d.val)] : t \in trends_call(c, a)}

\* A model as genai.list_models() lists it; 'x' in m.name is kept as the
\* membership of x in the name's parts.
Model(name, parts, methods) == [name |-> name, parts |-> parts, methods |-> methods]
Flash15 == Model("models/gemini-1.5-flash", {"gemini", "1.5", "flash"}, {"generateContent"})
Pro15 == Model("models/gemini-1.5-pro", {"gemini", "1.5", "pro"}, {"generateContent"})
GeminiPro == Model("models/gemini-pro", {"gemini", "pro"}, {"generateContent"})
Bison == Model("models/text-bison-001", {"text", "bison"}, {"generateContent"})
Embedding == Model("models/gemini-embedding", {"gemini", "embedding"}, {"embedContent"})

Failure(msg) == [ok |-> FALSE, rows |-> <<>>, error |-> msg]
Listing(ms) == [ok |-> TRUE, rows |-> ms, error |-> ""]
Generated(text) == [ok |-> TRUE, rows |-> <<text>>, error |-> ""]

IsFlash15(m) == "flash" \in m.parts /\ "1.5" \in m.parts
IsPro15(m) == "pro" \in m.parts /\ "1.5" \in m.parts
IsGemini(m) == "gemini" \in m.parts
CanGenerate(m) == "generateContent" \in m.methods

\* The model the three loops select, or none
select_model(available) ==
    IF SelectSeq(available, IsFlash15) # <<>> THEN <<Head(SelectSeq(available, IsFlash15))>>
    ELSE IF SelectSeq(available, IsPro15) # <<>> THEN <<Head(SelectSeq(available, IsPro15))>>
    ELSE IF SelectSeq(available, IsGemini) # <<>> THEN <<Head(SelectSeq(available, IsGemini))>>
    ELSE <<>>

Returned(text, used) == [raised |-> FALSE, text |-> text, used |-> used]
Thrown(used) == [raised |-> TRUE, text |-> "", used |-> used]

generate_ai_response_unguarded(l) ==
    IF ~l.models.ok THEN Thrown({"models"})
    ELSE LET selected_model == select_model(SelectSeq(l.models.rows, CanGenerate))
         IN IF selected_model = <<>> THEN Returned("Error: No AI models found.", {"models"})
            ELSE IF ~l.gen.ok THEN Thrown({"models", "gen"})
            ELSE Returned(l.gen.rows[1], {"models", "gen"})

\* generate_ai_response: the reply, or the text of the except branch; used names
\* the API calls made.
generate_ai_response(l) ==
    IF ~l.models.ok THEN Returned("System Error: " \o l.models.error, {"models"})
    ELSE LET selected_model == select_model(SelectSeq(l.models.rows, CanGenerate))
         IN IF selected_model = <<>> THEN Returned("Error: No AI models found.", {"models"})
            ELSE IF ~l.gen.ok
                 THEN Returned("System Error: " \o l.gen.error, {"models", "gen"})
                 ELSE Returned(l.gen.rows[1], {"models", "gen"})

Message(role, content) == [role |-> role, content |-> content]

\* The chat tab: the history after the run; an exception of the reply leaves
\* the script after the user entry was appended.
chat_tab(msgs, prm, l) ==
    IF prm = NoPrompt THEN [raised |-> FALSE, messages |-> msgs, used |-> {}]
    ELSE LET reply == generate_ai_response(l)
         IN IF reply.raised
            THEN [raised |-> TRUE, messages |-> Append(msgs, Message("user", prm)),
                  used |-> reply.used]
            ELSE [raised |-> FALSE,
                  messages |-> msgs \o <<Message("user", prm), Message("assistant", reply.text)>>,
                  used |-> reply.used]

----------------------------------------------------------------------------
(* The responses SpecApp draws from *)

FullTeamStats == TeamStatsFrame(1..FullLeague, [t \in 1..FullLeague |-> 1130])
PartialTeamStats == TeamStatsFrame({1, 2}, [t \in {1, 2} |-> IF t = 1 THEN 1161 ELSE 1119])

AppApiResponses ==
    {Api(BaseSeason, BaseL5, Frame(<<Game(1, 2)>>), Frame(<<>>), t) :
        t \in {Raise, Frame(<<>>), PartialTeamStats, FullTeamStats}}

\* The responses with those of the calls not made blanked
Received(a, f) ==
    Api(IF "season" \in f THEN a.season ELSE Raise,
        IF "l5" \in f THEN a.l5 ELSE Raise,
        IF "board1" \in f THEN a.board1 ELSE Raise,
        IF "board2" \in f THEN a.board2 ELSE Raise,
        IF "teamstats" \in f THEN a.teamstats ELSE Raise)

ModelListings ==
    {Failure("list_models failed"), Listing(<<Bison, Embedding>>),
     Listing(<<GeminiPro, Pro15, Flash15>>)}
Generations == {Failure("generate_content failed"), Generated("Analysis")}
LlmResponses == [models : ModelListings, gen : Generations]
UsedLlm(l, used) ==
    [models |-> IF "models" \in used THEN l.models ELSE Raise,
     gen |-> IF "gen" \in used THEN l.gen ELSE Raise]

Prompts == {"Who is hot?"}

\* What a run on cache c can receive from upstream: the responses to the calls
\* it makes
ReceivedBy(c) ==
    {Received(a, (CHOOSE side \in sidebar(c, a) : TRUE).fetched) : a \in AppApiResponses}

\* What a run with chat input prm can receive from the language-model API
LlmUsedBy(prm) ==
    IF prm = NoPrompt THEN {NoLlm}
    ELSE {UsedLlm(l, generate_ai_response(l).used) : l \in LlmResponses}

----------------------------------------------------------------------------
(* SpecApp: one browser tab on the script *)

InitApp ==
    /\ api = NoApi
    /\ pc = "ready"
    /\ trends = NoTable
    /\ games = EmptyDict
    /\ defense = EmptyDict
    /\ AppIdle

\* The cache as a run finds it: an entry whose ttl has passed since it was
\* stored is a miss when the function is called.
AfterTtl(c) ==
    {[trends |-> IF "trends" \in E THEN Miss ELSE c.trends,
      games |-> IF "games" \in E THEN Miss ELSE c.games,
      defense |-> IF "defense" \in E THEN Miss ELSE c.defense] :
        E \in SUBSET {"trends", "games", "defense"}}

\* One run of the script from the top with the session state and cache given
RunScript(flag, stored, msgs, prm) ==
    IF ~check_password(flag).ok
    THEN /\ screen' = check_password(flag).shows
         /\ indicator' = "none"
         /\ cache' = stored
         /\ messages' = msgs
         /\ fetched' = {}
         /\ api' = NoApi
         /\ llm' = NoLlm
         /\ trends' = NoTable
         /\ games' = EmptyDict
         /\ defense' = EmptyDict
    ELSE \E c \in AfterTtl(stored) : \E a \in ReceivedBy(c) : \E side \in sidebar(c, a) :
            /\ fetched' = side.fetched
            /\ api' = a
            /\ cache' = side.cache
            /\ trends' = side.trends
            /\ games' = side.games
            /\ IF side.raised
               THEN /\ screen' = "exception"
                    /\ indicator' = "none"
                    /\ defense' = EmptyDict
                    /\ messages' = msgs
                    /\ llm' = NoLlm
               ELSE /\ indicator' = side.indicator
                    /\ defense' = side.def_debug
                    /\ \E l \in LlmUsedBy(prm) :
                          /\ messages' = chat_tab(msgs, prm, l).messages
                          /\ llm' = l
                          /\ screen' = IF chat_tab(msgs, prm, l).raised
                                       THEN "exception" ELSE "app"

\* The access-code input changes: the on_change callback, then a rerun
SubmitPassword ==
    /\ screen \in {"gate", "gate_error"}
    /\ \E code \in AccessCodes \ {password} :
          /\ submitted' = code
          /\ password_correct' = password_entered(code).password_correct
          /\ password' = password_entered(code).password
          /\ prompt' = NoPrompt
          /\ RunScript(password_entered(code).password_correct, cache, messages, NoPrompt)
    /\ UNCHANGED pc

\* The chat input is submitted
SubmitChat ==
    /\ screen \in {"app", "exception"}
    /\ Len(messages) < 2 * MaxChats
    /\ \E p \in Prompts :
          /\ prompt' = p
          /\ RunScript(password_correct, cache, messages, p)
    /\ UNCHANGED <<pc, password_correct, password, submitted>>

\* "Force Reset Data": st.cache_data.clear() and st.rerun()
ForceReset ==
    /\ screen \in {"app", "exception"}
    /\ prompt' = NoPrompt
    /\ RunScript(password_correct, EmptyCache, messages, NoPrompt)
    /\ UNCHANGED <<pc, password_correct, password, submitted>>

\* The page is reloaded: a new session state on the same process-wide cache
Reload ==
    /\ prompt' = NoPrompt
    /\ password_correct' = "unset"
    /\ password' = ""
    /\ submitted' = ""
    /\ RunScript("unset", cache, <<>>, NoPrompt)
    /\ UNCHANGED pc

NextApp == SubmitPassword \/ SubmitChat \/ ForceReset \/ Reload

SpecApp == InitApp /\ [][NextApp]_vars

----------------------------------------------------------------------------
(* Properties of the session, checked under SpecApp *)

MainRan == screen \in {"app", "exception"}
AtGate == screen \in {"gate", "gate_error"}

\* C8: the main app logic runs only in a run in which password_correct is
\* True; the flag becomes True only through a submission equal to
\* APP_PASSWORD; before any submission and after an incorrect one the script
\* stops at the gate.
C8_PasswordGate ==
    /\ [](MainRan => password_correct = "true")
    /\ [](password_correct = "unset" => screen = "gate")
    /\ [](password_correct = "false" => (screen = "gate_error" /\ submitted # "courtvision"))
    /\ [][(password_correct # "true" /\ password_correct' = "true")
            => submitted' = "courtvision"]_vars
    /\ [][(submitted' # submitted /\ submitted' # "courtvision") => AtGate']_vars

\* C8 witness: the app is shown after the configured access code was entered
\* and the sidebar made its fetches.
C8_Witness ==
    /\ screen = "app"
    /\ password_correct = "true"
    /\ submitted = "courtvision"
    /\ "teamstats" \in fetched

\* C9: a run in which the LeagueDashTeamStats call raised shows the defense
\* indicator as the error or the warning, not as the success.
C9_FailureShown ==
    (MainRan /\ "teamstats" \in fetched /\ ~api.teamstats.ok)
        => indicator \in {"error", "warning"}

IsErrorReply(text) ==
    text \in {"Error: No AI models found.", "System Error: list_models failed",
              "System Error: generate_content failed"}

LlmFailed ==
    \/ ~llm.models.ok
    \/ \A i \in DOMAIN llm.models.rows :
           \/ "generateContent" \notin llm.models.rows[i].methods
           \/ "gemini" \notin llm.models.rows[i].parts
    \/ ~llm.gen.ok

====
